---- MODULE Spec2Model ----
(***************************************************************************)
(* Model of the BingoSpinner React component                               *)
(* (src/bingo_spinner_with_text_to_speech_teacher_voice_saver.jsx).        *)
(*                                                                         *)
(* Text is a sequence of one-character strings; an item is a non-empty     *)
(* sequence of characters.  Angles are exact rationals [n, d] in lowest    *)
(* terms (the source computes in IEEE doubles; the model idealises them as *)
(* exact numbers).  Every React event handler runs against the state of    *)
(* the latest render; the setTimeout callback runs against the render that *)
(* created it (its closure), except for functional state updates.          *)
(* Voice, rate, pitch and volume only parameterise the utterance and are   *)
(* left out.                                                               *)
(***************************************************************************)
EXTENDS Integers, Sequences, FiniteSets, TLC

VARIABLES rawList, items, history, removeOnPick, autoSpeak, selectedIndex,
          isSpinning, rotation, spinCount, timers, utterances,
          op, lastApplied, events

vars == <<rawList, items, history, removeOnPick, autoSpeak, selectedIndex,
          isSpinning, rotation, spinCount, timers, utterances,
          op, lastApplied, events>>

\* The spin state proper (what a no-op request must leave alone).
spinVars == <<items, history, selectedIndex, isSpinning, rotation, spinCount,
              timers>>

----------------------------------------------------------------------------
\* Bounds of the model.

\* A spin is accepted only while spinCount < MaxSpins.
MaxSpins == 2

\* The user triggers at most MaxEvents events (clicks, edits) in a session.
MaxEvents == 4

\* Math.random() for the index is drawn from {0/RandDen, ..., (RandDen-1)/RandDen}.
RandDen == 2

----------------------------------------------------------------------------
\* Characters and text.

LF == "\n"
CR == "\r"
SP == " "
TAB == "\t"

\* Characters String.prototype.trim removes (those the inputs use).
Whitespace == {SP, TAB, CR, LF}

\* The value of selectedIndex when no index is selected (null).
Null == -1

\* items[idx] for an index outside the array (undefined).
Undefined == <<"undefined">>

\* Array.prototype.join("\n")
RECURSIVE JoinLines(_)
JoinLines(ws) ==
    IF Len(ws) = 0 THEN <<>>
    ELSE IF Len(ws) = 1 THEN ws[1]
    ELSE ws[1] \o <<LF>> \o JoinLines(Tail(ws))

\* A line that ended at "\n": the separator /\r?\n/ also takes a "\r" before it.
StripCR(line) ==
    IF Len(line) > 0 /\ line[Len(line)] = CR
    THEN SubSeq(line, 1, Len(line) - 1)
    ELSE line

\* String.prototype.split(/\r?\n/): the text is cut at every "\n"; line k lies
\* between the (k-1)-th and the k-th "\n", and a line that ended at "\n" loses
\* the "\r" before it.
SplitLines(t) ==
    LET IsLF(i) == t[i] = LF
        lfs == SelectSeq([i \in 1..Len(t) |-> i], IsLF)
        n == Len(lfs)
        from(k) == IF k = 1 THEN 1 ELSE lfs[k - 1] + 1
    IN [k \in 1..(n + 1) |->
          IF k <= n THEN StripCR(SubSeq(t, from(k), lfs[k] - 1))
          ELSE SubSeq(t, from(k), Len(t))]

RECURSIVE TrimStart(_)
TrimStart(s) ==
    IF Len(s) > 0 /\ s[1] \in Whitespace THEN TrimStart(Tail(s)) ELSE s

RECURSIVE TrimEnd(_)
TrimEnd(s) ==
    IF Len(s) > 0 /\ s[Len(s)] \in Whitespace
    THEN TrimEnd(SubSeq(s, 1, Len(s) - 1))
    ELSE s

\* String.prototype.trim
Trim(s) == TrimEnd(TrimStart(s))

\* .filter(Boolean) on strings: the empty string is falsy.
Truthy(s) == Len(s) > 0

\* rawList.split(/\r?\n/).map((s) => s.trim()).filter(Boolean)
ParseList(t) ==
    LET lines == SplitLines(t)
        trimmed == [i \in 1..Len(lines) |-> Trim(lines[i])]
    IN SelectSeq(trimmed, Truthy)

----------------------------------------------------------------------------
\* The word lists.

Digit == <<"0", "1", "2", "3", "4", "5", "6", "7", "8", "9">>

\* `${n}` for a non-negative integer
RECURSIVE ToDigits(_)
ToDigits(n) ==
    IF n < 10 THEN <<Digit[n + 1]>>
    ELSE ToDigits(n \div 10) \o <<Digit[(n % 10) + 1]>>

defaultWords ==
    JoinLines(<<
        <<"B","1">>, <<"B","2">>, <<"B","3">>, <<"B","4">>, <<"B","5">>,
        <<"I","1","6">>, <<"I","1","7">>, <<"I","1","8">>, <<"I","1","9">>, <<"I","2","0">>,
        <<"N","3","1">>, <<"N","3","2">>, <<"N","3","3">>, <<"N","3","4">>, <<"N","3","5">>,
        <<"G","4","6">>, <<"G","4","7">>, <<"G","4","8">>, <<"G","4","9">>, <<"G","5","0">>,
        <<"O","6","1">>, <<"O","6","2">>, <<"O","6","3">>, <<"O","6","4">>, <<"O","6","5">> >>)

letters == <<"B", "I", "N", "G", "O">>
ranges == << <<1, 15>>, <<16, 30>>, <<31, 45>>, <<46, 60>>, <<61, 75>> >>

\* for (let n = a; n <= b; n++) out.push(`${letters[i]}${n}`)
RECURSIVE BandItems(_, _, _)

\* Mutant of BandItems: the last number of the band is left out (n < b).
BandItemsWithoutLast(i, n, b) ==
    IF n >= b THEN <<>>
    ELSE << <<letters[i]>> \o ToDigits(n) >> \o BandItems(i, n + 1, b)

BandItems(i, n, b) ==
    IF n > b THEN <<>>
    ELSE << <<letters[i]>> \o ToDigits(n) >> \o BandItems(i, n + 1, b)

\* for (let i = 0; i < 5; i++) ...
RECURSIVE ClassicFrom(_)
ClassicFrom(i) ==
    IF i > 5 THEN <<>>
    ELSE BandItems(i, ranges[i][1], ranges[i][2]) \o ClassicFrom(i + 1)

ClassicOut == ClassicFrom(1)

\* const text = out.join("\n");
ClassicText == JoinLines(ClassicOut)

\* What the user types into the text box.
TextBlank == <<SP, LF, CR, LF, TAB>>
TextXYZ == <<SP, "X", CR, LF, "Y", SP, LF, LF, "Z">>
TextAB == <<"A", LF, "B">>
RawTexts == {TextBlank, TextXYZ, TextAB}

\* Every value the text box can hold.
AllTexts == RawTexts \cup {defaultWords, ClassicText}

\* ParseList of the text box, tabulated over the values it can hold.
ParsedText == [t \in AllTexts |-> ParseList(t)]

----------------------------------------------------------------------------
\* Numbers: exact rationals [n |-> numerator, d |-> denominator > 0].

Abs(x) == IF x < 0 THEN -x ELSE x

RECURSIVE GCD(_, _)
GCD(a, b) == IF b = 0 THEN a ELSE GCD(b, a % b)

LCM(a, b) == (a \div GCD(a, b)) * b

Norm(n, d) ==
    LET g == GCD(Abs(n), d)
    IN [n |-> (IF n < 0 THEN -(Abs(n) \div g) ELSE n \div g), d |-> d \div g]

RInt(k) == [n |-> k, d |-> 1]

RAdd(a, b) ==
    LET l == LCM(a.d, b.d)
    IN Norm(a.n * (l \div a.d) + b.n * (l \div b.d), l)

RNeg(a) == [n |-> -a.n, d |-> a.d]
RSub(a, b) == RAdd(a, RNeg(b))
RMulInt(a, k) == Norm(a.n * k, a.d)
RDivInt(a, k) == Norm(a.n, a.d * k)
RLt(a, b) == RSub(a, b).n < 0
RLe(a, b) == RSub(a, b).n <= 0

\* Truncation toward zero of a / m, m a positive integer.
RTruncDiv(a, m) ==
    IF a.n >= 0 THEN a.n \div (a.d * m) ELSE -((-a.n) \div (a.d * m))

\* The JavaScript % operator (the result has the sign of the dividend).
JSMod(a, m) == RSub(a, RInt(m * RTruncDiv(a, m)))

----------------------------------------------------------------------------
\* Derived values and the rotation planner.

\* const sliceAngle = items.length > 0 ? 360 / items.length : 0;
SliceAngle(its) == IF Len(its) > 0 THEN Norm(360, Len(its)) ELSE RInt(0)

\* Math.floor(Math.random() * items.length), Math.random() = r / RandDen
PickIndex(r, n) == (r * n) \div RandDen

\* Mutant of CenterAngle: the start of the slice instead of its centre.
CenterAngleSliceStart(idx, sliceAngle) == RMulInt(sliceAngle, idx)

\* const centerAngle = idx * sliceAngle + sliceAngle / 2;
CenterAngle(idx, sliceAngle) ==
    RAdd(RMulInt(sliceAngle, idx), RDivInt(sliceAngle, 2))

\* Mutant of ExtraSpins: one revolution short.
ExtraSpinsFromFive(e) == 5 + e

\* const extraSpins = 6 + Math.floor(Math.random() * 4);   e = floor(random * 4)
ExtraSpins(e) == 6 + e

\* const current = ((rotation % 360) + 360) % 360;
Current(rot) == JSMod(RAdd(JSMod(rot, 360), RInt(360)), 360)

\* const deltaToZero = (360 - ((centerAngle + current) % 360)) % 360;
DeltaToZero(centerAngle, current) ==
    JSMod(RSub(RInt(360), JSMod(RAdd(centerAngle, current), 360)), 360)

\* const target = rotation + extraSpins * 360 + deltaToZero;
Target(rot, idx, its, e) ==
    LET centerAngle == CenterAngle(idx, SliceAngle(its))
        deltaToZero == DeltaToZero(centerAngle, Current(rot))
    IN RAdd(RAdd(rot, RInt(ExtraSpins(e) * 360)), deltaToZero)

----------------------------------------------------------------------------
\* Speech: window.speechSynthesis holds a queue of utterances.

TestText == <<"T", "e", "s", "t">>

\* How one call of speak() goes: it returns normally, cancel() throws, or the
\* utterance constructor / speechSynthesis.speak throws after cancel().
SpeechOutcomes == {"ok", "throwAtCancel", "throwAtSpeak"}

\* Mutant of Speak: no cancel() before the new utterance is queued.
SpeakWithoutCancel(queue, text, outcome) ==
    IF outcome = "ok" THEN Append(queue, text) ELSE queue

\* speak(text): cancel(); new SpeechSynthesisUtterance(text); speak(u) in try/catch
Speak(queue, text, outcome) ==
    IF outcome = "throwAtCancel" THEN queue
    ELSE IF outcome = "throwAtSpeak" THEN <<>>
    ELSE <<text>>

\* Mutant of Escapes: speak() without its try/catch.
EscapesWithoutCatch(outcome) == outcome # "ok"

\* Whether an exception thrown inside speak() reaches its caller:
\* catch (e) { console.error("Speech error", e); } lets none through.
Escapes(outcome) == FALSE

----------------------------------------------------------------------------
\* Initial state: the state after the first render and the voice-loading effect.

Init ==
    /\ rawList = defaultWords
    /\ items = ParseList(defaultWords)
    /\ history = <<>>
    /\ removeOnPick = FALSE
    /\ autoSpeak = TRUE
    /\ selectedIndex = Null
    /\ isSpinning = FALSE
    /\ rotation = RInt(0)
    /\ spinCount = 0
    /\ timers = <<>>
    /\ utterances = <<>>
    /\ op = "init"
    /\ lastApplied = defaultWords
    /\ events = 0

----------------------------------------------------------------------------
\* Operations.

\* One more event of the user.
UserEvent ==
    /\ events < MaxEvents
    /\ events' = events + 1

\* textarea onChange: setRawList(e.target.value)
EditText ==
    \E t \in RawTexts :
        /\ rawList' = t
        /\ UserEvent
        /\ UNCHANGED op
        /\ UNCHANGED <<items, history, removeOnPick, autoSpeak, selectedIndex,
                       isSpinning, rotation, spinCount, timers, utterances,
                       lastApplied>>

\* Every pending completion belongs to the pool that was just replaced.
MarkStale(ts) == [i \in 1..Len(ts) |-> [ts[i] EXCEPT !.stale = TRUE]]

\* Mutant of ApplyAccepts: an empty list is applied too.
ApplyAcceptsAnyList(list) == TRUE

\* if (list.length > 0) in applyList
ApplyAccepts(list) == Len(list) > 0

applyList ==
    LET list == ParsedText[rawList]
    IN /\ UserEvent
       /\ op' = IF Len(list) = 0 THEN "applyBlank" ELSE "apply"
       /\ IF ApplyAccepts(list)
          THEN /\ items' = list
               /\ history' = <<>>
               /\ selectedIndex' = Null
               /\ rotation' = RInt(0)
               /\ spinCount' = 0
               /\ timers' = MarkStale(timers)
               /\ lastApplied' = rawList
          ELSE UNCHANGED <<items, history, selectedIndex, rotation, spinCount,
                           timers, lastApplied>>
       /\ UNCHANGED <<rawList, removeOnPick, autoSpeak, isSpinning, utterances>>

\* The text resetList derives the pool from.
ResetSource == rawList

resetList ==
    /\ items' = ParsedText[ResetSource]
    /\ history' = <<>>
    /\ selectedIndex' = Null
    /\ rotation' = RInt(0)
    /\ spinCount' = 0
    /\ timers' = MarkStale(timers)
    /\ UserEvent
    /\ op' = "reset"
    /\ UNCHANGED <<rawList, removeOnPick, autoSpeak, isSpinning, utterances,
                   lastApplied>>

setClassicBingo ==
    LET out == ClassicOut
        text == ClassicText
    IN /\ rawList' = text
       /\ items' = out
       /\ history' = <<>>
       /\ selectedIndex' = Null
       /\ rotation' = RInt(0)
       /\ spinCount' = 0
       /\ timers' = MarkStale(timers)
       /\ lastApplied' = text
       /\ UserEvent
       /\ op' = "classic"
       /\ UNCHANGED <<removeOnPick, autoSpeak, isSpinning, utterances>>

\* Mutants of SpinRejected: one half of the guard is missing.
SpinRejectedOnlyIfEmpty == Len(items) = 0
SpinRejectedOnlyIfSpinning == isSpinning

\* if (items.length === 0 || isSpinning) return;
SpinRejected == Len(items) = 0 \/ isSpinning

\* Mutant of NextSpinCount: the request is counted twice.
NextSpinCountTwice(c) == c + 2

\* setSpinCount((c) => c + 1)
NextSpinCount(c) == c + 1

\* The closure the setTimeout callback runs in: idx and the render's items,
\* autoSpeak and removeOnPick.  reqItem and stale are history variables: the
\* item at the selected index at request time, and whether the pool has been
\* replaced since.
Completion(idx) ==
    [idx |-> idx, items |-> items, autoSpeak |-> autoSpeak,
     removeOnPick |-> removeOnPick,
     reqItem |-> IF idx < Len(items) THEN items[idx + 1] ELSE Undefined,
     stale |-> FALSE]

\* History variable: the state a spin request arrives in.
SpinOp ==
    IF isSpinning THEN "spinWhileSpinning"
    ELSE IF Len(items) = 0 THEN "spinOnEmpty"
    ELSE "spin"

handleSpin ==
    /\ UserEvent
    /\ op' = SpinOp
    /\ IF SpinRejected
       THEN UNCHANGED spinVars
       ELSE /\ spinCount < MaxSpins
            /\ \E r \in 0..(RandDen - 1), e \in 0..3 :
                 LET idx == PickIndex(r, Len(items))
                 IN /\ selectedIndex' = idx
                    /\ rotation' = Target(rotation, idx, items, e)
                    /\ timers' = Append(timers, Completion(idx))
            /\ isSpinning' = TRUE
            /\ spinCount' = NextSpinCount(spinCount)
            /\ UNCHANGED <<items, history>>
    /\ UNCHANGED <<rawList, removeOnPick, autoSpeak, utterances, lastApplied>>

\* const picked = items[idx];   (items of the render that scheduled the timer)
Picked(t) == IF t.idx < Len(t.items) THEN t.items[t.idx + 1] ELSE Undefined

\* Mutant of Prepend: the pick is added at the end.
PrependAtEnd(picked, h) == h \o <<picked>>

\* setHistory((h) => [picked, ...h])
Prepend(picked, h) == <<picked>> \o h

\* prev.filter((_, i) => i !== idx): every element but the one at index idx
RemoveAt(prev, idx) ==
    IF idx < Len(prev)
    THEN SubSeq(prev, 1, idx) \o SubSeq(prev, idx + 2, Len(prev))
    ELSE prev

\* Mutant of SpinningAfterElapse: the callback leaves isSpinning as it is.
SpinningAfterElapseKept == isSpinning

\* setIsSpinning(false)
SpinningAfterElapse == FALSE

\* Mutant of SpeakApplies: the checkbox as it is when the timer elapses.
SpeakAppliesNow(t) == autoSpeak

\* if (autoSpeak) ...: autoSpeak of the render that scheduled the timer
SpeakApplies(t) == t.autoSpeak

\* Mutant of RemoveApplies: the checkbox as it is when the timer elapses.
RemoveAppliesNow(t) == removeOnPick

\* if (removeOnPick) ...: removeOnPick of the render that scheduled the timer
RemoveApplies(t) == t.removeOnPick

\* History variable: what happened around this completion (speech failed, or
\* a checkbox was changed while the wheel was spinning).
TimerOp(t, o) ==
    IF t.autoSpeak /\ o # "ok" THEN "timerSpeechFailed"
    ELSE IF t.autoSpeak # autoSpeak \/ t.removeOnPick # removeOnPick
         THEN "timerPolicyChanged"
    ELSE "timer"

\* The callback given to window.setTimeout, 4500 ms after an accepted spin.
\* o is how the call of speak() goes, when there is one.
TimerElapsed ==
    /\ Len(timers) > 0
    /\ \E o \in SpeechOutcomes :
         LET t == Head(timers)
             picked == Picked(t)
             spoke == SpeakApplies(t)
             aborted == spoke /\ Escapes(o)
         IN /\ isSpinning' = SpinningAfterElapse
            /\ history' = Prepend(picked, history)
            /\ IF spoke
               THEN utterances' = Speak(utterances, picked, o)
               ELSE UNCHANGED utterances
            /\ IF RemoveApplies(t) /\ ~aborted
               THEN items' = RemoveAt(items, t.idx)
               ELSE UNCHANGED items
            /\ op' = TimerOp(t, o)
    /\ timers' = Tail(timers)
    /\ UNCHANGED <<events, rawList, removeOnPick, autoSpeak, selectedIndex, rotation,
                   spinCount, lastApplied>>

\* Mutant of LatestEntry: the oldest entry instead of the newest.
OldestEntry(h) == h[Len(h)]

\* history[0]
LatestEntry(h) == h[1]

\* History variable: whether an utterance is in flight when speak again is clicked.
SpeakAgainOp ==
    IF Len(utterances) > 0 THEN "speakAgainWhileSpeaking" ELSE "speakAgain"

\* if (history[0]) speak(history[0]);
speakAgain ==
    /\ UserEvent
    /\ op' = SpeakAgainOp
    /\ IF Len(history) > 0 /\ Truthy(LatestEntry(history))
       THEN \E o \in SpeechOutcomes :
              utterances' = Speak(utterances, LatestEntry(history), o)
       ELSE UNCHANGED utterances
    /\ UNCHANGED <<rawList, items, history, removeOnPick, autoSpeak,
                   selectedIndex, isSpinning, rotation, spinCount, timers,
                   lastApplied>>

\* onClick={() => speak("Test de la voix. ...")}
TestVoice ==
    /\ UserEvent
    /\ UNCHANGED op
    /\ \E o \in SpeechOutcomes : utterances' = Speak(utterances, TestText, o)
    /\ UNCHANGED <<rawList, items, history, removeOnPick, autoSpeak,
                   selectedIndex, isSpinning, rotation, spinCount, timers,
                   lastApplied>>

\* The speech engine finishes the utterance at the head of its queue.
UtteranceEnds ==
    /\ Len(utterances) > 0
    /\ utterances' = Tail(utterances)
    /\ UNCHANGED <<op, events, rawList, items, history, removeOnPick, autoSpeak,
                   selectedIndex, isSpinning, rotation, spinCount, timers,
                   lastApplied>>

\* onChange={(e) => setRemoveOnPick(e.target.checked)}
ToggleRemoveOnPick ==
    /\ removeOnPick' = ~removeOnPick
    /\ UserEvent
    /\ UNCHANGED op
    /\ UNCHANGED <<rawList, items, history, autoSpeak, selectedIndex,
                   isSpinning, rotation, spinCount, timers, utterances,
                   lastApplied>>

\* onChange={(e) => setAutoSpeak(e.target.checked)}
ToggleAutoSpeak ==
    /\ autoSpeak' = ~autoSpeak
    /\ UserEvent
    /\ UNCHANGED op
    /\ UNCHANGED <<rawList, items, history, removeOnPick, selectedIndex,
                   isSpinning, rotation, spinCount, timers, utterances,
                   lastApplied>>

Next ==
    \/ EditText
    \/ applyList
    \/ resetList
    \/ setClassicBingo
    \/ handleSpin
    \/ TimerElapsed
    \/ speakAgain
    \/ TestVoice
    \/ UtteranceEnds
    \/ ToggleRemoveOnPick
    \/ ToggleAutoSpeak

Spec == Init /\ [][Next]_vars

\* The browser runs every timeout callback it was given: the callback of a
\* pending timer cannot stay pending forever.
FairSpec == Spec /\ WF_vars(TimerElapsed)

----------------------------------------------------------------------------
\* Steps the claims speak about.

\* A spin request that arrives with a non-empty pool and no spin in progress.
AcceptedSpin == ~isSpinning /\ Len(items) > 0 /\ handleSpin

\* apply, reset or the classic preset.
PoolOperation == applyList \/ resetList \/ setClassicBingo

\* The completion that is about to run belongs to a pool that was replaced.
StaleElapse == Len(timers) > 0 /\ Head(timers).stale /\ TimerElapsed

\* a - b for rationals, and the rational k
Zero == RInt(0)

\* prev without the element at (0-based) index idx, idx < Len(prev)
Without(prev, idx) ==
    [k \in 1..(Len(prev) - 1) |-> IF k <= idx THEN prev[k] ELSE prev[k + 1]]

----------------------------------------------------------------------------
\* C1: a spin request that arrives while a spin is in progress changes nothing
\* of the spin state: isSpinning, rotation, spinCount, history, items and
\* selectedIndex stay as they are and no further completion is scheduled.
C1_ReentrantSpinIgnored ==
    [][(isSpinning /\ handleSpin) => UNCHANGED spinVars]_vars

\* A spin was requested during a spin, and that spin is still the only one pending.
C1_Witness ==
    /\ op = "spinWhileSpinning"
    /\ isSpinning
    /\ Len(timers) = 1
    /\ spinCount = 1

\* C2 (as claimed): the completion of a spin whose pool was replaced by apply,
\* reset or the classic preset prepends nothing to history, removes nothing
\* from the new pool and speaks nothing.
C2_StaleCompletionDiscarded ==
    [][StaleElapse =>
         /\ history' = history
         /\ items' = items
         /\ utterances' = utterances]_vars

\* C3 (as claimed): reset restores the pool derived from the raw text of the
\* last successful apply or preset (the default list if there was none) and
\* empties history, rotation and spinCount.
C3_ResetRestoresLastApplied ==
    [][resetList =>
         /\ items' = ParseList(lastApplied)
         /\ history' = <<>>
         /\ rotation' = Zero
         /\ spinCount' = 0]_vars

\* C4 (as claimed): apply with a text that yields at least one item leaves the
\* pool equal to the trimmed non-empty lines, history empty, rotation 0,
\* spinCount 0 and the spin state Idle, from every state.
C4_ApplyResetsToIdle ==
    [][(Len(ParseList(rawList)) > 0 /\ applyList) =>
         /\ items' = ParseList(rawList)
         /\ history' = <<>>
         /\ rotation' = Zero
         /\ spinCount' = 0
         /\ ~isSpinning']_vars

\* C5 (as claimed): when a spin completes with remove-after-pick on, the pool
\* loses exactly one item, the item at the selected index that was just
\* prepended to history, and the other items keep their order.
C5_RemovesThePickedItem ==
    [][(Len(timers) > 0 /\ Head(timers).removeOnPick /\ removeOnPick
          /\ TimerElapsed) =>
         LET t == Head(timers)
         IN /\ Len(items') = Len(items) - 1
            /\ t.idx < Len(items)
            /\ items[t.idx + 1] = t.reqItem
            /\ history'[1] = t.reqItem
            /\ items' = Without(items, t.idx)]_vars

\* C6: after every accepted spin, rotation mod 360 = (360 - centerAngle) mod 360
\* with centerAngle = i * (360 / n) + (360 / n) / 2 = (2i + 1) * 180 / n, for
\* the selected index i and the pool length n.
C6_TargetAlignsSliceCentre ==
    [][AcceptedSpin =>
         LET n == Len(items)
             i == selectedIndex'
             centre == Norm((2 * i + 1) * 180, n)
         IN /\ i \in 0..(n - 1)
            /\ JSMod(rotation', 360) = JSMod(RSub(RInt(360), centre), 360)]_vars

\* A second spin in a row was accepted after the first one removed its item,
\* from a rotation that is not a multiple of 360.
C6_Witness ==
    /\ op = "spin"
    /\ isSpinning
    /\ spinCount = 2
    /\ Len(history) = 1
    /\ Len(timers) = 1
    /\ ~timers[1].stale
    /\ Len(items) = Len(ParseList(lastApplied)) - 1
    /\ JSMod(rotation, 360) # Zero

\* C7: an accepted spin raises rotation by k * 360 + d with k in 6..9 and
\* 0 <= d < 360; any other change of rotation is made by apply, reset or the
\* classic preset.
C7_RotationGrowsBySixToNineTurns ==
    [][/\ AcceptedSpin =>
            /\ RLt(rotation, rotation')
            /\ \E k \in 6..9 :
                 LET d == RSub(RSub(rotation', rotation), RInt(k * 360))
                 IN RLe(Zero, d) /\ RLt(d, RInt(360))
       /\ rotation' # rotation => (AcceptedSpin \/ PoolOperation)]_vars

\* Two spins in a row were accepted: the wheel has turned at least 12 times.
C7_Witness ==
    /\ op = "spin"
    /\ isSpinning
    /\ spinCount = 2
    /\ RLe(RInt(2 * 6 * 360), rotation)

\* C8: when a spin's timer elapses, isSpinning becomes false and history gets
\* exactly one new entry at the front, the item that was at the selected index
\* at request time, followed by the old entries in order; any other change of
\* history is apply, reset or the classic preset emptying it.
C8_CompletionPrependsThePick ==
    [][/\ TimerElapsed =>
            /\ ~isSpinning'
            /\ history' = <<Head(timers).reqItem>> \o history
       /\ history' # history =>
            (TimerElapsed \/ (PoolOperation /\ history' = <<>>))]_vars

\* A second completion has put its pick in front of a different earlier pick.
C8_Witness ==
    /\ op = "timer"
    /\ ~isSpinning
    /\ Len(history) = 2
    /\ history[1] # history[2]

\* C9: an accepted spin request raises spinCount by exactly 1 and sets
\* isSpinning; any other change of spinCount is apply, reset or the classic
\* preset setting it to 0 (so the timer, an ignored request, speech and the
\* toggles leave it alone).
C9_SpinCountCountsAcceptedRequests ==
    [][/\ AcceptedSpin => (spinCount' = spinCount + 1 /\ isSpinning')
       /\ spinCount' # spinCount =>
            (AcceptedSpin \/ (PoolOperation /\ spinCount' = 0))]_vars

\* Two spins were requested and both have completed: the count is still 2.
C9_Witness ==
    /\ spinCount = 2
    /\ ~isSpinning
    /\ timers = <<>>
    /\ Len(history) = 2

----------------------------------------------------------------------------
\* C11: apply with a text that yields no item changes nothing: items,
\* history, rotation, spinCount, selectedIndex, isSpinning and the pending
\* completion stay as they are.
C11_ApplyOfEmptyListIgnored ==
    [][(Len(ParseList(rawList)) = 0 /\ applyList) =>
         UNCHANGED <<spinVars, lastApplied>>]_vars

\* A blank text was applied after a spin had completed: its pick is still there.
C11_Witness ==
    /\ op = "applyBlank"
    /\ Len(history) = 1
    /\ spinCount = 1
    /\ rotation # Zero
    /\ selectedIndex # Null

\* C12 (as claimed): no apply, reset or preset takes effect between a spin
\* request and its completion, so the pool a completion finds is the pool of
\* the request, same length and same order.
C12_PoolStableAcrossSpin ==
    [][(Len(timers) > 0 /\ TimerElapsed) => items = Head(timers).items]_vars

\* C13: at most one utterance is in flight in every state.
C13_AtMostOneUtterance == Len(utterances) <= 1

\* Speak again was clicked while an utterance was in flight, and the only
\* utterance now in flight is the latest pick.
C13_Witness ==
    /\ op = "speakAgainWhileSpeaking"
    /\ Len(history) > 0
    /\ utterances = <<history[1]>>

\* C14: speak again changes nothing of the spin state; with an empty history
\* it leaves the speech queue alone, otherwise it calls speak with the front
\* entry of history: that entry becomes the only utterance, unless the call
\* fails (then the queue is as it was, or empty).
C14_SpeakAgainSpeaksFrontEntry ==
    [][speakAgain =>
         /\ UNCHANGED spinVars
         /\ history = <<>> => utterances' = utterances
         /\ history # <<>> =>
              utterances' \in {<<history[1]>>, <<>>, utterances}]_vars

\* Speak again was clicked during a spin with nothing in flight, and the
\* front entry of history is now being spoken.
C14_Witness ==
    /\ op = "speakAgain"
    /\ isSpinning
    /\ Len(history) = 1
    /\ utterances = <<history[1]>>

\* C15: under fairness of the timer, a spin in progress eventually ends.
C15_SpinEventuallyCompletes == isSpinning ~> ~isSpinning

\* A spin has completed although the pool was reset while it was in progress.
C15_Witness ==
    /\ op \in {"timer", "timerSpeechFailed", "timerPolicyChanged"}
    /\ ~isSpinning
    /\ timers = <<>>
    /\ spinCount = 0
    /\ Len(history) = 1

\* C16: whether the speech call of a completion succeeds or throws, the
\* completion sets isSpinning to false, prepends the pick and, when
\* remove-after-pick applies, filters the selected index out of the pool.
C16_SpeechFailureNotFatal ==
    [][TimerElapsed =>
         LET t == Head(timers)
         IN /\ ~isSpinning'
            /\ Len(history') = Len(history) + 1
            /\ history'[1] = t.reqItem
            /\ items' = IF t.removeOnPick /\ t.idx < Len(items)
                        THEN Without(items, t.idx)
                        ELSE items]_vars

\* A completion whose speech call failed has removed its pick from the pool.
C16_Witness ==
    /\ op = "timerSpeechFailed"
    /\ ~isSpinning
    /\ Len(history) = 1
    /\ Len(items) = Len(ParseList(lastApplied)) - 1
    /\ \A i \in 1..Len(items) : items[i] # history[1]

\* `${n}` for n in 1..75, written out digit by digit
TwoDigits(k) ==
    IF k < 10 THEN <<Digit[k + 1]>> ELSE <<Digit[(k \div 10) + 1], Digit[(k % 10) + 1]>>

\* C17: the classic preset leaves a pool of exactly 75 pairwise distinct
\* items, the item of number k in band b (letters B, I, N, G, O, numbers
\* 15b+1..15b+15) at 0-based position k - 1, and empties history, rotation
\* and spinCount.
C17_ClassicPresetIsTheBingoCard ==
    [][setClassicBingo =>
         /\ Len(items') = 75
         /\ \A i, j \in 1..75 : i # j => items'[i] # items'[j]
         /\ \A b \in 0..4 : \A k \in (15 * b + 1)..(15 * b + 15) :
              items'[(15 * b + (k - 15 * b - 1)) + 1] =
                <<(<<"B", "I", "N", "G", "O">>)[b + 1]>> \o TwoDigits(k)
         /\ history' = <<>>
         /\ rotation' = Zero
         /\ spinCount' = 0]_vars

\* The preset was chosen during a spin of another list.
C17_Witness ==
    /\ op = "classic"
    /\ isSpinning
    /\ Len(items) = 75
    /\ items[16] = <<"I", "1", "6">>
    /\ items[75] = <<"O", "7", "5">>
    /\ history = <<>>

\* C18: isSpinning holds exactly when one completion timer is pending, and
\* there are never two.
C18_SpinningIffOneTimer ==
    /\ Len(timers) <= 1
    /\ isSpinning <=> Len(timers) = 1

\* A spin is in progress, its single timer pending, and the pool has been
\* replaced meanwhile.
C18_Witness ==
    /\ isSpinning
    /\ Len(timers) = 1
    /\ timers[1].stale
    /\ spinCount = 0

\* C19 (as claimed): the entries of history plus the pending spins are as
\* many as spinCount.
C19_HistoryPlusPendingIsSpinCount ==
    Len(history) + Len(timers) = spinCount

\* C20: a completion removes the item, and speaks, according to the
\* checkboxes as they were when its spin was requested.
C20_PoliciesOfTheRequestApply ==
    [][TimerElapsed =>
         LET t == Head(timers)
         IN /\ ~t.removeOnPick => items' = items
            /\ (t.removeOnPick /\ t.idx < Len(items)) =>
                 Len(items') = Len(items) - 1
            /\ ~t.autoSpeak => utterances' = utterances
            /\ t.autoSpeak =>
                 (utterances' = <<t.reqItem>> \/ op' = "timerSpeechFailed")]_vars

\* Both checkboxes were changed during the spin: the completion spoke the pick
\* and left it in the pool, as at the request, although by now auto-speak is
\* off and remove-after-pick on.
C20_Witness ==
    /\ op = "timerPolicyChanged"
    /\ removeOnPick
    /\ ~autoSpeak
    /\ Len(history) = 1
    /\ utterances = <<history[1]>>
    /\ Len(items) = Len(ParseList(lastApplied))

====
